---- MODULE Spec2Model ----
(***************************************************************************)
(* wiki-quiz-master: the quiz generator and URL parser of wikiService.ts   *)
(* and the quiz session of App.tsx.                                        *)
(*                                                                         *)
(* A string is a sequence of one-character strings.  Three specifications  *)
(* share the variables: SpecGen runs generateQuizFromExtract step by step, *)
(* SpecUrl applies parseWikiUrl, SpecApp is the React component with its   *)
(* pending fetches and timers.                                             *)
(***************************************************************************)
EXTENDS Integers, Sequences, FiniteSets, TLC

VARIABLES
    \* generateQuizFromExtract: parameters, locals and position
    title, extract, pool, poolIdx, genQuiz, trimmed, target, question,
    allWords, options, genPc,
    \* parseWikiUrl: the argument, the returned value and the position
    url, parsed, urlPc,
    \* App: the component's state, ...
    loading, inputUrl, quiz, currentIndex, score, showResult, selectedOption,
    isCorrect, history, currentResults, articleTitle, lastScoreForUrl,
    \* ... localStorage['wiki_quiz_history'], the fetches awaited, the pending
    \* setTimeout callbacks in the order they were set, the alerts shown, the
    \* clock behind new Date(), whether the component is still mounted, and
    \* the number of fetches issued so far
    stored, inflight, timers, alerts, now, mounted, fetches

genVars == <<title, extract, pool, poolIdx, genQuiz, trimmed, target, question,
             allWords, options, genPc>>

urlVars == <<url, parsed, urlPc>>

appVars == <<loading, inputUrl, quiz, currentIndex, score, showResult, selectedOption,
             isCorrect, history, currentResults, articleTitle, lastScoreForUrl,
             stored, inflight, timers, alerts, now, mounted, fetches>>

vars == <<genVars, urlVars, appVars>>

----------------------------------------------------------------------------
(* Program constants of wikiService.ts *)

MinParagraphLen == 100
MinSentenceLen == 50
MaxSentenceLen == 200
MaxQuestions == 5
MinWordLen == 5
MinFallbackLen == 6
NumOptions == 4

(* Bounds of the model *)

\* orders a random-comparator sort is taken to produce (rotations of the list)
MaxShuffle == 2
\* copies of the two-sentence paragraph in the longest extract
MaxCopies == 3

----------------------------------------------------------------------------
(* String primitives of the JavaScript runtime, on sequences of characters *)

UpperChars == <<"A","B","C","D","E","F","G","H","I","J","K","L","M",
                "N","O","P","Q","R","S","T","U","V","W","X","Y","Z">>
LowerChars == <<"a","b","c","d","e","f","g","h","i","j","k","l","m",
                "n","o","p","q","r","s","t","u","v","w","x","y","z">>
DigitChars == <<"0","1","2","3","4","5","6","7","8","9">>

\* the characters \s and trim() treat as white space
WhiteSpace == {" ", "\n", "\t"}

Range(s) == {s[i] : i \in 1..Len(s)}

\* the lower-case letter of each upper-case letter
LowerOf ==
    [c \in {UpperChars[i] : i \in 1..Len(UpperChars)} |->
        LowerChars[CHOOSE i \in 1..Len(UpperChars) : UpperChars[i] = c]]

toLowerChar(c) == IF c \in DOMAIN LowerOf THEN LowerOf[c] ELSE c

toLowerCase(s) == [i \in 1..Len(s) |-> toLowerChar(s[i])]

RECURSIVE TrimStart(_)
TrimStart(s) ==
    IF Len(s) > 0 /\ s[1] \in WhiteSpace THEN TrimStart(Tail(s)) ELSE s

RECURSIVE TrimEnd(_)
TrimEnd(s) ==
    IF Len(s) > 0 /\ s[Len(s)] \in WhiteSpace
    THEN TrimEnd(SubSeq(s, 1, Len(s) - 1)) ELSE s

trim(s) == TrimEnd(TrimStart(s))

\* s.split(c) for a separator character in seps: empty pieces are kept.
\* The pieces of s[lo..hi], by halves: the piece cut by the middle is joined.
RECURSIVE SplitRange(_, _, _, _)
SplitRange(s, seps, lo, hi) ==
    IF lo > hi THEN << <<>> >>
    ELSE IF lo = hi
         THEN IF s[lo] \in seps THEN << <<>>, <<>> >> ELSE << <<s[lo]>> >>
         ELSE LET mid == (lo + hi) \div 2
                  l == SplitRange(s, seps, lo, mid)
                  r == SplitRange(s, seps, mid + 1, hi)
              IN  SubSeq(l, 1, Len(l) - 1) \o << l[Len(l)] \o r[1] >> \o Tail(r)

split(s, seps) == SplitRange(s, seps, 1, Len(s))

\* s.split(/\s+/): a run of white space is one separator, so no piece but
\* the first and the last is empty
splitWhite(s) ==
    LET p == split(s, WhiteSpace)
    IN  IF Len(p) < 2 THEN p
        ELSE <<p[1]>> \o SelectSeq(SubSeq(p, 2, Len(p) - 1), LAMBDA w : w # <<>>)
                      \o <<p[Len(p)]>>

\* s.indexOf(t), 1-based; 0 when t does not occur: a scan from the left
RECURSIVE IndexFrom(_, _, _)
IndexFrom(s, t, k) ==
    IF k + Len(t) - 1 > Len(s) THEN 0
    ELSE IF SubSeq(s, k, k + Len(t) - 1) = t THEN k
    ELSE IndexFrom(s, t, k + 1)

indexOf(s, t) == IndexFrom(s, t, 1)

includes(s, t) == indexOf(s, t) # 0

\* s.lastIndexOf(t), a scan from the right
RECURSIVE LastIndexFrom(_, _, _)
LastIndexFrom(s, t, k) ==
    IF k < 1 THEN 0
    ELSE IF SubSeq(s, k, k + Len(t) - 1) = t THEN k
    ELSE LastIndexFrom(s, t, k - 1)

ReplaceAt(s, k, n, r) ==
    IF k = 0 THEN s ELSE SubSeq(s, 1, k - 1) \o r \o SubSeq(s, k + n, Len(s))

\* a replace that blanks the last occurrence instead of the first
replaceLast(s, t, r) == ReplaceAt(s, LastIndexFrom(s, t, Len(s) - Len(t) + 1), Len(t), r)

\* s.replace(t, r) with a string pattern: the first occurrence only
replace(s, t, r) == ReplaceAt(s, indexOf(s, t), Len(t), r)

\* w.replace(/[,.;]$/, '')
stripPunct(w) ==
    IF Len(w) > 0 /\ w[Len(w)] \in {",", ".", ";"}
    THEN SubSeq(w, 1, Len(w) - 1) ELSE w

\* /^[A-Z]/.test(w)
startsUpper(w) == Len(w) > 0 /\ w[1] \in Range(UpperChars)

RECURSIVE Flatten(_)
Flatten(ss) == IF ss = <<>> THEN <<>> ELSE Head(ss) \o Flatten(Tail(ss))

Min(a, b) == IF a < b THEN a ELSE b

\* the list moved round by k places
Rotate(s, k) == [i \in 1..Len(s) |-> s[((i + k - 1) % Len(s)) + 1]]

\* list.sort(() => Math.random() - 0.5): some reordering of the list
Shuffles(s) ==
    IF Len(s) = 0 THEN {s}
    ELSE {Rotate(s, k) : k \in 0..(Min(MaxShuffle, Len(s)) - 1)}

----------------------------------------------------------------------------
(* Inputs of generateQuizFromExtract: titles and extracts built from words *)

wParisians == <<"P","a","r","i","s","i","a","n","s">>
wParisComma == <<"P","a","r","i","s",",">>
wLove == <<"l","o","v","e">>
wLondon == <<"L","o","n","d","o","n">>
wLONDON == <<"L","O","N","D","O","N">>
wBerlin == <<"B","e","r","l","i","n">>
wSaturn == <<"S","a","t","u","r","n">>
wSaturnLcComma == <<"s","a","t","u","r","n",",">>
wOf == <<"o","f">>

RECURSIVE JoinWith(_, _)
JoinWith(ss, sep) ==
    IF Len(ss) = 0 THEN <<>>
    ELSE IF Len(ss) = 1 THEN ss[1]
    ELSE ss[1] \o sep \o JoinWith(Tail(ss), sep)

\* n times " of"
Filler(n) == [i \in 1..(3 * n) |-> <<" ", "o", "f">>[((i - 1) % 3) + 1]]

\* s followed by " of" until it is longer than n characters
FillTo(s, n) == IF Len(s) > n THEN s ELSE s \o Filler(((n - Len(s)) \div 3) + 1)

Sentence(ws) == FillTo(JoinWith(ws, <<" ">>), MinSentenceLen)

Paragraph(ss) == JoinWith(ss, <<".", " ">>) \o <<".">>

RECURSIVE Copies(_, _)
Copies(s, n) == IF n = 0 THEN <<>> ELSE Append(Copies(s, n - 1), s)

sParis == Sentence(<<wParisians, wLove, wParisComma>>)
sCities == Sentence(<<wLondon, wBerlin, wLONDON>>)
sSaturn == Sentence(<<wSaturn>>)
sSaturnLc == Sentence(<<wSaturnLcComma>>)
sLondon == Sentence(<<wLondon>>)
sPlain == Sentence(<<wOf>>)
sHuge == FillTo(wBerlin, MaxSentenceLen)

tMars == <<"M","a","r","s">>
tParisMetro == <<"P","a","r","i","s"," ","M","e","t","r","o">>

Titles == {tMars, tParisMetro}

Extracts ==
    { Paragraph(<<sParis, sCities>>),
      Paragraph(<<sSaturn, sLondon>>),
      Paragraph(<<sSaturn, sSaturnLc>>),
      JoinWith(Copies(Paragraph(<<sSaturn, sSaturn>>), MaxCopies), <<"\n">>),
      JoinWith(<<sSaturn, sLondon>>, <<"\n">>),
      Paragraph(<<sPlain, sPlain>>),
      Paragraph(<<sHuge, sSaturn>>),
      <<>> }

----------------------------------------------------------------------------
(* generateQuizFromExtract *)

Blank == <<"_","_","_","_","_","_","_">>

Placeholder(n) == <<"O","p","t","i","o","n"," ", DigitChars[n + 1]>>

Paragraphs(ex) ==
    SelectSeq(split(ex, {"\n"}), LAMBDA p : Len(trim(p)) > MinParagraphLen)

Sentences(ex) ==
    LET perParagraph ==
            [i \in 1..Len(Paragraphs(ex)) |-> split(Paragraphs(ex)[i], {".", "!", "?"})]
    IN  SelectSeq(Flatten(perParagraph),
                  LAMBDA s : Len(trim(s)) > MinSentenceLen /\ Len(trim(s)) < MaxSentenceLen)

FirstTitleWord(t) == split(toLowerCase(t), {" "})[1]

PreferredWords(t, sentence) ==
    SelectSeq(split(sentence, {" "}),
              LAMBDA w : /\ Len(w) > MinWordLen
                         /\ ~includes(toLowerCase(w), FirstTitleWord(t))
                         /\ startsUpper(w))

FallbackWords(sentence) ==
    SelectSeq(split(sentence, {" "}), LAMBDA w : Len(w) > MinFallbackLen)

TargetWords(t, sentence) ==
    IF Len(PreferredWords(t, sentence)) > 0
    THEN PreferredWords(t, sentence) ELSE FallbackWords(sentence)

Distractors(ex, tgt) ==
    SelectSeq(splitWhite(ex),
              LAMBDA w : Len(w) > MinWordLen /\ toLowerCase(w) # toLowerCase(tgt))

\* a presence test that compares the options exactly
IsPresentExact(opts, fake) == \E i \in 1..Len(opts) : opts[i] = fake

\* options.some(o => o.toLowerCase() === fake.toLowerCase())
IsPresent(opts, fake) ==
    \E i \in 1..Len(opts) : toLowerCase(opts[i]) = toLowerCase(fake)

RECURSIVE PadOptions(_)
PadOptions(opts) ==
    IF Len(opts) < NumOptions
    THEN PadOptions(Append(opts, Placeholder(Len(opts)))) ELSE opts

\* a loop test that lets one more question in
QuizFullLate(q) == Len(q) > MaxQuestions

\* if (quiz.length >= 5) break
QuizFull(q) == Len(q) >= MaxQuestions

\* the test of the distractor-sampling loop
Sampling == Len(options) < NumOptions /\ Len(allWords) > 0

\* the component is not there
AppIdle ==
    /\ loading = FALSE /\ inputUrl = <<>> /\ quiz = <<>> /\ currentIndex = 0
    /\ score = 0 /\ showResult = FALSE /\ selectedOption = "null"
    /\ isCorrect = "null" /\ history = <<>> /\ currentResults = <<>>
    /\ articleTitle = "" /\ lastScoreForUrl = [some |-> FALSE, v |-> 0]
    /\ stored = <<>> /\ inflight = <<>> /\ timers = <<>> /\ alerts = {}
    /\ now = 0 /\ mounted = FALSE /\ fetches = 0

\* parseWikiUrl is not running
UrlIdle == url = <<>> /\ parsed = [ok |-> FALSE, value |-> <<>>] /\ urlPc = "idle"

InitGen ==
    /\ UrlIdle
    /\ AppIdle
    /\ title \in Titles
    /\ extract \in Extracts
    /\ pool = <<>>
    /\ poolIdx = 0
    /\ genQuiz = <<>>
    /\ trimmed = <<>>
    /\ target = <<>>
    /\ question = <<>>
    /\ allWords = <<>>
    /\ options = <<>>
    /\ genPc = "start"

\* lines 57-64: the pool of sentences, shuffled
GenBegin ==
    /\ genPc = "start"
    /\ pool' \in Shuffles(Sentences(extract))
    /\ poolIdx' = 1
    /\ genPc' = "for"
    /\ UNCHANGED <<title, extract, genQuiz, trimmed, target, question, allWords, options>>
    /\ UNCHANGED <<urlVars, appVars>>

\* the for loop ends: the pool is used up, or the break of line 67
GenReturn ==
    /\ genPc = "for"
    /\ (poolIdx > Len(pool) \/ QuizFull(genQuiz))
    /\ genPc' = "done"
    /\ UNCHANGED <<title, extract, pool, poolIdx, genQuiz, trimmed, target, question,
                   allWords, options>>
    /\ UNCHANGED <<urlVars, appVars>>

\* lines 69-80 for a sentence without a target word
SkipSentence ==
    /\ genPc = "for"
    /\ poolIdx <= Len(pool)
    /\ ~QuizFull(genQuiz)
    /\ Len(TargetWords(title, trim(pool[poolIdx]))) = 0
    /\ poolIdx' = poolIdx + 1
    /\ UNCHANGED <<title, extract, pool, genQuiz, trimmed, target, question, allWords,
                   options, genPc>>
    /\ UNCHANGED <<urlVars, appVars>>

\* lines 69-86: the target, the question text and the first option
PickTarget ==
    /\ genPc = "for"
    /\ poolIdx <= Len(pool)
    /\ ~QuizFull(genQuiz)
    /\ LET tr == trim(pool[poolIdx])
           targetWords == TargetWords(title, tr)
       IN  /\ Len(targetWords) > 0
           /\ \E r \in 1..Len(targetWords) :
                 LET tgt == stripPunct(targetWords[r])
                 IN  /\ trimmed' = tr
                     /\ target' = tgt
                     /\ question' = replace(tr, tgt, Blank)
                     /\ allWords' = Distractors(extract, tgt)
                     /\ options' = <<tgt>>
    /\ genPc' = "while"
    /\ UNCHANGED <<title, extract, pool, poolIdx, genQuiz>>
    /\ UNCHANGED <<urlVars, appVars>>

\* lines 88-93: one round of the sampling loop
SampleFake ==
    /\ genPc = "while"
    /\ Sampling
    /\ \E r \in 1..Len(allWords) :
          LET fake == stripPunct(allWords[r])
          IN  options' = IF IsPresent(options, fake) THEN options
                         ELSE Append(options, fake)
    /\ UNCHANGED <<title, extract, pool, poolIdx, genQuiz, trimmed, target, question,
                   allWords, genPc>>
    /\ UNCHANGED <<urlVars, appVars>>

\* lines 95-104: the padding, the shuffle of the options and the push
PushQuestion ==
    /\ genPc = "while"
    /\ ~Sampling
    /\ \E shuffled \in Shuffles(PadOptions(options)) :
          genQuiz' = Append(genQuiz, [question |-> question, answer |-> target,
                                      options |-> shuffled])
    /\ poolIdx' = poolIdx + 1
    /\ trimmed' = <<>>
    /\ target' = <<>>
    /\ question' = <<>>
    /\ allWords' = <<>>
    /\ options' = <<>>
    /\ genPc' = "for"
    /\ UNCHANGED <<title, extract, pool>>
    /\ UNCHANGED <<urlVars, appVars>>

NextGen ==
    \/ GenBegin
    \/ GenReturn
    \/ SkipSentence
    \/ PickTarget
    \/ SampleFake
    \/ PushQuestion

SpecGen == InitGen /\ [][NextGen]_vars

----------------------------------------------------------------------------
(* Claims about generateQuizFromExtract, checked under SpecGen *)

IsPlaceholder(o) == \E n \in 1..(NumOptions - 1) : o = Placeholder(n)

\* C1: every question of the quiz has exactly 4 options, no two of them equal
\* when case is ignored, and exactly one of them is the question's answer.
C1_OptionsWellFormed ==
    \A q \in Range(genQuiz) :
        /\ Len(q.options) = 4
        /\ \A i, j \in 1..Len(q.options) :
              i # j => toLowerCase(q.options[i]) # toLowerCase(q.options[j])
        /\ Cardinality({i \in 1..Len(q.options) : q.options[i] = q.answer}) = 1

\* C1 witness: a returned question with three sampled distractors, one of
\* which also occurs in the extract in another case or with punctuation.
C1_Witness ==
    /\ genPc = "done"
    /\ \E q \in Range(genQuiz) :
          /\ \A o \in Range(q.options) : ~IsPlaceholder(o)
          /\ \E o \in Range(q.options), w \in Range(splitWhite(extract)) :
                /\ o # q.answer
                /\ w # o
                /\ toLowerCase(stripPunct(w)) = toLowerCase(o)

\* C2: generateQuizFromExtract terminates: the distractor-sampling loop ends
\* once 4 options are collected or the candidates are used up.  Inside the
\* loop a step that changes the state is possible: a round that adds an
\* option, or the exit to the padding.  (Each such step adds an option or
\* moves on to the next sentence, so there are finitely many of them; where
\* none is possible the loop runs for ever without changing anything.)
C2_Terminates == genPc = "while" => ENABLED <<SampleFake \/ PushQuestion>>_genVars

\* C3: the quiz never holds more than 5 questions.
C3_AtMostFive == Len(genQuiz) <= 5

\* C3 witness: the function returned 5 questions from a pool of more than 5.
C3_Witness == genPc = "done" /\ Len(genQuiz) = 5 /\ Len(pool) > 5

Occurs(s, t, k) == k + Len(t) - 1 <= Len(s) /\ SubSeq(s, k, k + Len(t) - 1) = t

\* C4: the question text is the trimmed sentence with the first occurrence
\* of the answer, and only that, replaced by the blank of 7 underscores; the
\* answer occurs in the sentence, so every question holds a blank.
C4_BlankFirst ==
    /\ genPc = "while" =>
          /\ \E a, b \in 0..Len(pool[poolIdx]) :
                /\ a + Len(trimmed) + b = Len(pool[poolIdx])
                /\ trimmed = SubSeq(pool[poolIdx], a + 1, a + Len(trimmed))
                /\ \A i \in (1..a) \cup ((Len(pool[poolIdx]) - b + 1)..Len(pool[poolIdx])) :
                      pool[poolIdx][i] \in WhiteSpace
                /\ Len(trimmed) > 0 =>
                      trimmed[1] \notin WhiteSpace /\ trimmed[Len(trimmed)] \notin WhiteSpace
          /\ Len(target) > 0
          /\ \E k \in 1..Len(trimmed) :
                /\ Occurs(trimmed, target, k)
                /\ \A j \in 1..(k - 1) : ~Occurs(trimmed, target, j)
                /\ question = SubSeq(trimmed, 1, k - 1)
                              \o <<"_","_","_","_","_","_","_">>
                              \o SubSeq(trimmed, k + Len(target), Len(trimmed))
    /\ \A q \in Range(genQuiz) :
          \E k \in 1..Len(q.question) :
              Occurs(q.question, <<"_","_","_","_","_","_","_">>, k)

\* C4 witness: a question under construction whose answer occurs more than
\* once in its sentence.
C4_Witness ==
    /\ genPc = "while"
    /\ \E j, k \in 1..Len(trimmed) :
          j < k /\ Occurs(trimmed, target, j) /\ Occurs(trimmed, target, k)

----------------------------------------------------------------------------
(* parseWikiUrl *)

\* generateQuizFromExtract is not running
GenIdle ==
    /\ title = <<>> /\ extract = <<>> /\ pool = <<>> /\ poolIdx = 0
    /\ genQuiz = <<>> /\ trimmed = <<>> /\ target = <<>> /\ question = <<>>
    /\ allWords = <<>> /\ options = <<>> /\ genPc = "idle"

Null == [ok |-> FALSE, value |-> <<>>]
Some(v) == [ok |-> TRUE, value |-> v]

cHttps == <<"h","t","t","p","s",":","/","/">>
cWikipediaOrg == <<"w","i","k","i","p","e","d","i","a",".","o","r","g">>
cWiki == <<"w","i","k","i">>
cTitle == <<"t","i","t","l","e">>

\* the percent escapes the inputs use, with the character each stands for
EscapeOf == (<<"2","F">> :> "/") @@ (<<"2","0">> :> " ") @@ (<<"4","1">> :> "A")

StartsWith(s, p) == Len(s) >= Len(p) /\ SubSeq(s, 1, Len(p)) = p

\* the first position of s, from k on, that holds a character of set; Len(s) + 1 if none
RECURSIVE FirstIn(_, _, _)
FirstIn(s, set, k) ==
    IF k > Len(s) THEN Len(s) + 1
    ELSE IF s[k] \in set THEN k
    ELSE FirstIn(s, set, k + 1)

\* decodeURIComponent(s): Null stands for the URIError of a malformed escape
RECURSIVE decodeURIComponent(_)
decodeURIComponent(s) ==
    IF Len(s) = 0 THEN Some(<<>>)
    ELSE IF s[1] # "%"
         THEN LET rest == decodeURIComponent(Tail(s))
              IN  IF rest.ok THEN Some(<<s[1]>> \o rest.value) ELSE Null
         ELSE IF Len(s) >= 3 /\ SubSeq(s, 2, 3) \in DOMAIN EscapeOf
              THEN LET rest == decodeURIComponent(SubSeq(s, 4, Len(s)))
                   IN  IF rest.ok THEN Some(<<EscapeOf[SubSeq(s, 2, 3)]>> \o rest.value)
                       ELSE Null
              ELSE Null

\* new URL(u): hostname, pathname and search of an absolute https URL; ok is
\* FALSE where the constructor throws
ParseURL(u) ==
    IF ~StartsWith(u, cHttps) THEN [ok |-> FALSE, hostname |-> <<>>, pathname |-> <<>>,
                                    search |-> <<>>]
    ELSE LET rest == SubSeq(u, Len(cHttps) + 1, Len(u))
             hostEnd == FirstIn(rest, {"/", "?", "#"}, 1)
             pathEnd == FirstIn(rest, {"?", "#"}, hostEnd)
             fragAt == FirstIn(rest, {"#"}, pathEnd)
             path == SubSeq(rest, hostEnd, pathEnd - 1)
         IN  [ok |-> hostEnd > 1,
              hostname |-> toLowerCase(SubSeq(rest, 1, hostEnd - 1)),
              pathname |-> IF path = <<>> THEN <<"/">> ELSE path,
              search |-> SubSeq(rest, pathEnd, fragAt - 1)]

\* an escape of a query string, which leaves a malformed escape as it is
RECURSIVE decodeForm(_)
decodeForm(s) ==
    IF Len(s) = 0 THEN <<>>
    ELSE IF s[1] = "+" THEN <<" ">> \o decodeForm(Tail(s))
    ELSE IF s[1] = "%" /\ Len(s) >= 3 /\ SubSeq(s, 2, 3) \in DOMAIN EscapeOf
         THEN <<EscapeOf[SubSeq(s, 2, 3)]>> \o decodeForm(SubSeq(s, 4, Len(s)))
    ELSE <<s[1]>> \o decodeForm(Tail(s))

\* urlObj.searchParams.get(name): the value of the first pair of that name
searchParamsGet(search, name) ==
    LET query == IF StartsWith(search, <<"?">>) THEN Tail(search) ELSE search
        pairs == SelectSeq(split(query, {"&"}), LAMBDA p : p # <<>>)
        nameOf(p) == decodeForm(SubSeq(p, 1, FirstIn(p, {"="}, 1) - 1))
        valueOf(p) == decodeForm(SubSeq(p, FirstIn(p, {"="}, 1) + 1, Len(p)))
        hits == SelectSeq(pairs, LAMBDA p : nameOf(p) = name)
    IN  IF Len(hits) = 0 THEN Null ELSE Some(valueOf(hits[1]))

\* pathParts.indexOf('wiki'), 1-based; 0 for -1
RECURSIVE PartIndex(_, _, _)
PartIndex(parts, x, k) ==
    IF k > Len(parts) THEN 0
    ELSE IF parts[k] = x THEN k
    ELSE PartIndex(parts, x, k + 1)

\* decodeURIComponent(pathParts[wikiIndex + 1])
TitleSegment(parts, k) == decodeURIComponent(parts[k])

parseWikiUrl(u) ==
    LET urlObj == ParseURL(u)
        pathParts == split(urlObj.pathname, {"/"})
        wikiIndex == PartIndex(pathParts, cWiki, 1)
        titleParam == searchParamsGet(urlObj.search, cTitle)
    IN  IF ~urlObj.ok THEN Null
        ELSE IF ~includes(urlObj.hostname, cWikipediaOrg) THEN Null
        ELSE IF /\ wikiIndex # 0
                /\ wikiIndex + 1 <= Len(pathParts)
                /\ pathParts[wikiIndex + 1] # <<>>
             THEN TitleSegment(pathParts, wikiIndex + 1)
        ELSE IF titleParam.ok /\ titleParam.value # <<>> THEN titleParam
        ELSE Null

(* Inputs of parseWikiUrl *)

\* pieces a title is put together from
MaxTitleParts == 2

TitleParts ==
    { <<"A","C">>, <<"D","C">>, <<"/">>, <<"%","2","F">>, <<"%","2","0">>, <<"%","4","1">> }

RECURSIVE TitlesOf(_)
TitlesOf(n) ==
    IF n = 0 THEN { <<>> }
    ELSE TitlesOf(n - 1) \cup { t \o p : t \in TitlesOf(n - 1), p \in TitleParts }

UrlTitles == TitlesOf(MaxTitleParts) \ { <<>> }

Langs == { <<"e","n">>, <<"d","e">> }

ArticlePrefix(lang) == cHttps \o lang \o <<".">> \o cWikipediaOrg \o <<"/">> \o cWiki \o <<"/">>

IndexPrefix ==
    cHttps \o <<"e","n",".">> \o cWikipediaOrg
           \o <<"/","w","/","i","n","d","e","x",".","p","h","p","?">> \o cTitle \o <<"=">>

ElsewherePrefix == cHttps \o <<"e","x","a","m","p","l","e",".","o","r","g","/">> \o cWiki \o <<"/">>

Urls ==
    { p \o t : p \in {ArticlePrefix(l) : l \in Langs} \cup {IndexPrefix, ElsewherePrefix, <<>>},
               t \in UrlTitles }

InitUrl ==
    /\ GenIdle
    /\ AppIdle
    /\ url \in Urls
    /\ parsed = Null
    /\ urlPc = "call"

ParseCall ==
    /\ urlPc = "call"
    /\ parsed' = parseWikiUrl(url)
    /\ urlPc' = "done"
    /\ UNCHANGED url
    /\ UNCHANGED <<genVars, appVars>>

NextUrl == ParseCall

SpecUrl == InitUrl /\ [][NextUrl]_vars

(* Claims about parseWikiUrl, checked under SpecUrl *)

\* a title as it can stand in the path of a URL: not empty, no ? or #, and
\* every % starts an escape
ValidTitle(t) ==
    /\ t # <<>>
    /\ \A i \in 1..Len(t) : t[i] \notin {"?", "#"}
    /\ decodeURIComponent(t).ok

\* C5: for a URL https://<lang>.wikipedia.org/wiki/<Title>, parseWikiUrl
\* returns the whole of <Title>, percent-decoded, also when the title holds
\* a '/' or a percent escape.
C5_ReturnsTitle ==
    urlPc = "done" =>
        \A l \in Langs :
            StartsWith(url, ArticlePrefix(l)) =>
                LET t == SubSeq(url, Len(ArticlePrefix(l)) + 1, Len(url))
                IN  ValidTitle(t) => parsed = decodeURIComponent(t)

----------------------------------------------------------------------------
(* App.tsx: the quiz session *)

(* Bounds of the model *)

\* fetches the user sets off in a session
MaxFetches == 2
\* the last second of the clock
MaxClock == 1
\* questions of the longest quiz generated
MaxQuizLen == 2

NoScore == [some |-> FALSE, v |-> 0]
SomeScore(n) == [some |-> TRUE, v |-> n]

GenericMessage ==
    "Couldn't extract content from that link. Please make sure it's a valid Wikipedia article."

(* Inputs: what the user types, what the server and the generator return *)

uPage == <<"w","/","P">>

InputUrls == { <<>>, uPage }

PageTitles == { "Paris" }

appQuestions ==
    << [question |-> "q1", answer |-> "a1", options |-> <<"a1", "b1", "c1", "d1">>],
       [question |-> "q2", answer |-> "a2", options |-> <<"b2", "a2", "c2", "d2">>],
       [question |-> "q3", answer |-> "a3", options |-> <<"b3", "c3", "a3", "d3">>],
       [question |-> "q4", answer |-> "a4", options |-> <<"b4", "c4", "d4", "a4">>],
       [question |-> "q5", answer |-> "a5", options |-> <<"a5", "b5", "c5", "d5">>] >>

\* what generateQuizFromExtract may return, of at most 5 questions: no
\* question, one question, and the longest quiz of the model
GeneratedQuizzes ==
    { SubSeq(appQuestions, 1, n) : n \in {0, 1, Min(MaxQuizLen, MaxQuestions)} }

\* the options the user clicks: the first two shown
Clicked(q) == { q.options[1], q.options[2] }

oldItem ==
    [url |-> uPage, topic |-> "Old", score |-> 1, total |-> 1, date |-> 0,
     results |-> << [question |-> "q0", answer |-> "a0", selected |-> "a0",
                     isCorrect |-> TRUE] >>]

\* the list found under 'wiki_quiz_history' when the page loads
StoredAtLoad == { <<>>, <<oldItem>> }

(* Helpers *)

SameEntry(a, b) == a.url = b.url /\ a.date = b.date

\* a.findIndex(t => t.url === v.url && t.date === v.date)
RECURSIVE FindIndex(_, _, _)
FindIndex(a, v, k) ==
    IF k > Len(a) THEN 0
    ELSE IF SameEntry(a[k], v) THEN k
    ELSE FindIndex(a, v, k + 1)

\* a.filter((v, i, a) => a.findIndex(...) === i), from index k on
RECURSIVE FirstOnly(_, _)
FirstOnly(a, k) ==
    IF k > Len(a) THEN <<>>
    ELSE IF FindIndex(a, a[k], 1) = k THEN <<a[k]>> \o FirstOnly(a, k + 1)
    ELSE FirstOnly(a, k + 1)

\* a save that keeps every entry
NewHistoryNoFilter(item, hist) == <<item>> \o hist

\* line 47: newHistory of saveToHistory, from the history of its render
NewHistory(item, hist) == FirstOnly(<<item>> \o hist, 1)

\* history.find(h => h.url.includes(u) || u.includes(h.url)), as an index
RECURSIVE FindExisting(_, _, _)
FindExisting(hist, u, k) ==
    IF k > Len(hist) THEN 0
    ELSE IF includes(hist[k].url, u) \/ includes(u, hist[k].url) THEN k
    ELSE FindExisting(hist, u, k + 1)

\* existing ? existing.score : null
ExistingScore(hist, u) ==
    IF FindExisting(hist, u, 1) = 0 THEN NoScore
    ELSE SomeScore(hist[FindExisting(hist, u, 1)].score)

\* the effect of lines 37-44, which runs when inputUrl or history changed
LastScoreEffect(u, hist) == IF u # <<>> THEN ExistingScore(hist, u) ELSE NoScore

\* the quiz card of lines 201-240 is rendered
QuizShown(q, sr) == Len(q) > 0 /\ ~sr

\* rendering the quiz card reads quiz[currentIndex].question: a TypeError
\* when there is no such question, which unmounts the component
RenderThrows(q, sr, ci) == QuizShown(q, sr) /\ ~(ci < Len(q))

InitApp ==
    /\ GenIdle
    /\ UrlIdle
    /\ loading = FALSE
    /\ inputUrl = <<>>
    /\ quiz = <<>>
    /\ currentIndex = 0
    /\ score = 0
    /\ showResult = FALSE
    /\ selectedOption = "null"
    /\ isCorrect = "null"
    /\ stored \in StoredAtLoad
    /\ history = stored
    /\ currentResults = <<>>
    /\ articleTitle = ""
    /\ lastScoreForUrl = NoScore
    /\ inflight = <<>>
    /\ timers = <<>>
    /\ alerts = {}
    /\ now = 0
    /\ mounted = TRUE
    /\ fetches = 0

\* lines 53-68 of startQuiz for a non-empty url, up to the await
StartQuizSync(u) ==
    /\ fetches < MaxFetches
    /\ fetches' = fetches + 1
    /\ loading' = TRUE
    /\ quiz' = <<>>
    /\ currentIndex' = 0
    /\ score' = 0
    /\ showResult' = FALSE
    /\ selectedOption' = "null"
    /\ isCorrect' = "null"
    /\ currentResults' = <<>>
    /\ lastScoreForUrl' = ExistingScore(history, u)
    /\ inflight' = Append(inflight, u)
    /\ mounted' = TRUE
    /\ UNCHANGED <<history, articleTitle, stored, timers, alerts, now>>

\* startQuiz(url), called with the input unchanged
StartQuiz(u) ==
    IF u = <<>> THEN UNCHANGED appVars
    ELSE StartQuizSync(u) /\ UNCHANGED inputUrl

\* the clock moves on by a second
Tick ==
    /\ now < MaxClock
    /\ now' = now + 1
    /\ UNCHANGED <<loading, inputUrl, quiz, currentIndex, score, showResult,
                   selectedOption, isCorrect, history, currentResults, articleTitle,
                   lastScoreForUrl, stored, inflight, timers, alerts, mounted, fetches>>
    /\ UNCHANGED <<genVars, urlVars>>

\* line 140: onChange of the input
TypeUrl ==
    /\ mounted
    /\ \E u \in InputUrls \ {inputUrl} :
          /\ inputUrl' = u
          /\ lastScoreForUrl' = LastScoreEffect(u, history)
    /\ UNCHANGED <<loading, quiz, currentIndex, score, showResult, selectedOption,
                   isCorrect, history, currentResults, articleTitle, stored, inflight,
                   timers, alerts, now, mounted, fetches>>
    /\ UNCHANGED <<genVars, urlVars>>

\* line 141: Enter in the input
PressEnter ==
    /\ mounted
    /\ StartQuiz(inputUrl)
    /\ UNCHANGED <<genVars, urlVars>>

\* line 143: the Generate button, disabled while loading or without a url
ClickGenerate ==
    /\ mounted
    /\ ~loading /\ inputUrl # <<>>
    /\ StartQuiz(inputUrl)
    /\ UNCHANGED <<genVars, urlVars>>

\* lines 176 and 309: a click on an entry of the history
ClickEntry(i) ==
    LET u == history[i].url
    IN  IF u = <<>>
        THEN /\ inputUrl' = u
             /\ lastScoreForUrl' =
                    IF inputUrl # u THEN LastScoreEffect(u, history) ELSE lastScoreForUrl
             /\ UNCHANGED <<loading, quiz, currentIndex, score, showResult,
                            selectedOption, isCorrect, history, currentResults,
                            articleTitle, stored, inflight, timers, alerts, now, mounted, fetches>>
        ELSE /\ StartQuizSync(u)
             /\ inputUrl' = u

\* line 176: the first three entries, on the welcome card
ClickHistoryPreview ==
    /\ mounted
    /\ Len(quiz) = 0 /\ ~loading
    /\ \E i \in 1..Min(3, Len(history)) : ClickEntry(i)
    /\ UNCHANGED <<genVars, urlVars>>

\* line 309: the entries of the sidebar
ClickHistoryCard ==
    /\ mounted
    /\ \E i \in 1..Len(history) : ClickEntry(i)
    /\ UNCHANGED <<genVars, urlVars>>

\* line 286: Take Quiz Again, on the result card
ClickRetry ==
    /\ mounted
    /\ showResult
    /\ StartQuiz(inputUrl)
    /\ UNCHANGED <<genVars, urlVars>>

\* line 289: Home, on the result card
ClickHome ==
    /\ mounted
    /\ showResult
    /\ quiz' = <<>>
    /\ showResult' = FALSE
    /\ UNCHANGED <<loading, inputUrl, currentIndex, score, selectedOption, isCorrect,
                   history, currentResults, articleTitle, lastScoreForUrl, stored,
                   inflight, timers, alerts, now, mounted, fetches>>
    /\ UNCHANGED <<genVars, urlVars>>

Without(seq, i) == SubSeq(seq, 1, i - 1) \o SubSeq(seq, i + 1, Len(seq))

\* the catch and finally of lines 76-80 that leave loading as it is
FailureKeepsLoading(i, newTitle) ==
    /\ inflight' = Without(inflight, i)
    /\ alerts' = alerts \cup {GenericMessage}
    /\ articleTitle' = IF mounted THEN newTitle ELSE articleTitle
    /\ UNCHANGED <<loading, inputUrl, quiz, currentIndex, score, showResult,
                   selectedOption, isCorrect, history, currentResults,
                   lastScoreForUrl, stored, timers, now, mounted, fetches>>

\* lines 76-80: the catch shows the alert, the finally ends the loading
Failure(i, newTitle) ==
    /\ inflight' = Without(inflight, i)
    /\ alerts' = alerts \cup {GenericMessage}
    /\ loading' = IF mounted THEN FALSE ELSE loading
    /\ articleTitle' = IF mounted THEN newTitle ELSE articleTitle
    /\ UNCHANGED <<inputUrl, quiz, currentIndex, score, showResult, selectedOption,
                   isCorrect, history, currentResults, lastScoreForUrl, stored,
                   timers, now, mounted, fetches>>

\* line 41 of wikiService.ts: the request fails, or its answer has no pages
FetchFails ==
    /\ \E i \in 1..Len(inflight) : Failure(i, articleTitle)
    /\ UNCHANGED <<genVars, urlVars>>

\* line 46 of wikiService.ts: the page is missing
ArticleMissing ==
    /\ \E i \in 1..Len(inflight) : Failure(i, articleTitle)
    /\ UNCHANGED <<genVars, urlVars>>

\* lines 72-74: the article is there and no question comes out of it
GenerationEmpty ==
    /\ \E i \in 1..Len(inflight), t \in PageTitles :
          <<>> \in GeneratedQuizzes /\ Failure(i, t)
    /\ UNCHANGED <<genVars, urlVars>>

\* lines 72-75 and 79: the article is there and the quiz is set
QuizReady ==
    /\ \E i \in 1..Len(inflight), t \in PageTitles, g \in GeneratedQuizzes \ {<<>>} :
           /\ inflight' = Without(inflight, i)
           /\ IF mounted
              THEN /\ articleTitle' = t
                   /\ quiz' = g
                   /\ loading' = FALSE
                   /\ mounted' = ~RenderThrows(g, showResult, currentIndex)
              ELSE UNCHANGED <<articleTitle, quiz, loading, mounted>>
           /\ UNCHANGED <<inputUrl, currentIndex, score, showResult, selectedOption,
                          isCorrect, history, currentResults, lastScoreForUrl, stored,
                          timers, alerts, now, fetches>>
    /\ UNCHANGED <<genVars, urlVars>>

\* lines 83-100: an option is clicked; the callback of the timer keeps the
\* values of this render
HandleAnswer ==
    /\ mounted
    /\ QuizShown(quiz, showResult)
    /\ selectedOption = "null"
    /\ \E option \in Clicked(quiz[currentIndex + 1]) :
          LET correct == option = quiz[currentIndex + 1].answer
              result == [question |-> quiz[currentIndex + 1].question,
                         answer |-> quiz[currentIndex + 1].answer,
                         selected |-> option,
                         isCorrect |-> correct]
          IN  /\ selectedOption' = option
              /\ isCorrect' = IF correct THEN "true" ELSE "false"
              /\ currentResults' = Append(currentResults, result)
              /\ score' = IF correct THEN score + 1 ELSE score
              /\ timers' = Append(timers,
                     [currentIndex |-> currentIndex, quizLength |-> Len(quiz),
                      score |-> score, correct |-> correct, inputUrl |-> inputUrl,
                      articleTitle |-> articleTitle,
                      currentResults |-> currentResults, result |-> result,
                      history |-> history])
    /\ UNCHANGED <<loading, inputUrl, quiz, currentIndex, showResult, history,
                   articleTitle, lastScoreForUrl, stored, inflight, alerts, now, mounted, fetches>>
    /\ UNCHANGED <<genVars, urlVars>>

\* lines 106-114: the record of the quiz, from the values of the callback
HistoryItemOf(c) ==
    [url |-> c.inputUrl, topic |-> c.articleTitle,
     score |-> c.score + (IF c.correct THEN 1 ELSE 0),
     total |-> c.quizLength, date |-> now,
     results |-> Append(c.currentResults, c.result)]

\* lines 101-104: the callback of a question that is not the last
AdvanceTimer ==
    /\ Len(timers) > 0
    /\ timers[1].currentIndex < timers[1].quizLength - 1
    /\ timers' = Tail(timers)
    /\ IF mounted
       THEN /\ currentIndex' = currentIndex + 1
            /\ selectedOption' = "null"
            /\ isCorrect' = "null"
            /\ mounted' = ~RenderThrows(quiz, showResult, currentIndex + 1)
       ELSE UNCHANGED <<currentIndex, selectedOption, isCorrect, mounted>>
    /\ UNCHANGED <<loading, inputUrl, quiz, score, showResult, history, currentResults,
                   articleTitle, lastScoreForUrl, stored, inflight, alerts, now, fetches>>
    /\ UNCHANGED <<genVars, urlVars>>

\* lines 105-118 and 46-50: the callback of the last question saves the record
CompleteTimer ==
    /\ Len(timers) > 0
    /\ ~(timers[1].currentIndex < timers[1].quizLength - 1)
    /\ timers' = Tail(timers)
    /\ LET newHistory == NewHistory(HistoryItemOf(timers[1]), timers[1].history)
       IN  /\ stored' = newHistory
           /\ IF mounted
              THEN /\ history' = newHistory
                   /\ showResult' = TRUE
                   /\ inputUrl' = <<>>
                   /\ lastScoreForUrl' =
                          IF inputUrl # <<>> \/ newHistory # history
                          THEN LastScoreEffect(<<>>, newHistory) ELSE lastScoreForUrl
              ELSE UNCHANGED <<history, showResult, inputUrl, lastScoreForUrl>>
    /\ UNCHANGED <<loading, quiz, currentIndex, score, selectedOption, isCorrect,
                   currentResults, articleTitle, inflight, alerts, now, mounted, fetches>>
    /\ UNCHANGED <<genVars, urlVars>>

NextApp ==
    \/ Tick
    \/ TypeUrl
    \/ PressEnter
    \/ ClickGenerate
    \/ ClickHistoryPreview
    \/ ClickHistoryCard
    \/ ClickRetry
    \/ ClickHome
    \/ FetchFails
    \/ ArticleMissing
    \/ GenerationEmpty
    \/ QuizReady
    \/ HandleAnswer
    \/ AdvanceTimer
    \/ CompleteTimer

SpecApp == InitApp /\ [][NextApp]_vars

----------------------------------------------------------------------------
(* Claims about App.tsx, checked under SpecApp *)

NoDuplicates(h) ==
    \A i, j \in 1..Len(h) : i < j => ~SameEntry(h[i], h[j])

\* C6: neither the history in memory nor the stored list ever holds two
\* entries of the same url and date, and the save of a record leaves exactly
\* one entry of its url and date in the stored list.
C6_NoDuplicateEntries ==
    [][ /\ NoDuplicates(history) /\ NoDuplicates(stored)
        /\ NoDuplicates(history') /\ NoDuplicates(stored')
        /\ CompleteTimer =>
              Cardinality({ i \in 1..Len(stored') :
                              SameEntry(stored'[i], HistoryItemOf(timers[1])) }) = 1
      ]_vars

\* C6 witness: the entry stored at load has been replaced by a later record
\* of its url and date (a callback still pending remembers the old one).
C6_Witness ==
    /\ \E e \in Range(history) : SameEntry(e, oldItem) /\ e # oldItem
    /\ \E k \in 1..Len(timers) : oldItem \in Range(timers[k].history)

FailureStep == FetchFails \/ ArticleMissing \/ GenerationEmpty

\* one request is awaited and nothing else is pending
Alone ==
    /\ mounted /\ Len(inflight) = 1 /\ timers = <<>>
    /\ loading /\ quiz = <<>> /\ ~showResult

\* C7: a failed request of a mounted component shows the one generic
\* message, ends the loading, and sets no quiz, result or history; a request
\* started with nothing else pending stays alone until another is started or
\* it ends, and when it ends in failure the quiz is empty and no result shown.
C7_FailureHandled ==
    [][ /\ (mounted /\ FailureStep) =>
              /\ alerts' = alerts \cup {GenericMessage}
              /\ loading' = FALSE
              /\ quiz' = quiz /\ showResult' = showResult
              /\ history' = history /\ stored' = stored
        /\ (mounted /\ inflight = <<>> /\ timers = <<>> /\ Len(inflight') = 1) => Alone'
        /\ Alone =>
              \/ Alone'
              \/ Len(inflight') = 2
              \/ /\ inflight' = <<>>
                 /\ FailureStep =>
                       /\ quiz' = <<>> /\ ~showResult' /\ ~loading'
                       /\ alerts' = {GenericMessage}
                       /\ history' = history /\ stored' = stored
      ]_vars

\* C7 witness: the only request of the session has failed.
C7_Witness ==
    /\ mounted /\ fetches = 1 /\ inflight = <<>> /\ timers = <<>>
    /\ alerts = {GenericMessage} /\ ~loading /\ quiz = <<>> /\ ~showResult

\* C8: at most one fetchWikiArticle request is awaited at a time.
C8_OneRequest == Len(inflight) <= 1

\* C9: a record, once in the history or in the stored list, stays there,
\* unless a record of the same url and date takes its place.
C9_NoRecordLost ==
    [][ mounted' =>
          /\ \A r \in Range(history) : \E r2 \in Range(history') : SameEntry(r, r2)
          /\ \A r \in Range(stored) : \E r2 \in Range(stored') : SameEntry(r, r2)
      ]_vars

\* C10: while the quiz card is shown, currentIndex is an index of the quiz.
C10_IndexInRange == QuizShown(quiz, showResult) => currentIndex < Len(quiz)

\* the entries of a results list marked correct
CorrectCount(results) == Cardinality({ i \in 1..Len(results) : results[i].isCorrect })

\* C11: the record the completion callback passes to saveToHistory has one
\* result for each question of the quiz (as many as its total), and its score
\* is the number of its results that are correct.
C11_RecordConsistent ==
    [][ CompleteTimer =>
          LET item == HistoryItemOf(timers[1])
          IN  /\ Len(item.results) = item.total
              /\ item.score = CorrectCount(item.results)
      ]_vars

\* C12: on the result screen, Take Quiz Again starts a quiz: a click on it
\* (while the session may still fetch) enters startQuiz with a non-empty url,
\* turns loading on, resets the session and issues a fetch.
C12_RetryStartsQuiz ==
    (mounted /\ showResult /\ fetches < MaxFetches) =>
        ENABLED ( /\ ClickRetry
                  /\ loading' /\ quiz' = <<>> /\ ~showResult' /\ currentIndex' = 0
                  /\ Len(inflight') = Len(inflight) + 1
                  /\ inflight'[Len(inflight')] # <<>> )

====
